---- MODULE Spec2Model ----
(***************************************************************************)
(* Incremental synchronisation and change detection of                     *)
(* bitbucketrepoCloner.py: main() iterates the repository catalog and      *)
(* clone_or_update_repository() clones or pulls each repository, scans     *)
(* the changed files and records the observed commit in repo_tracker.db.   *)
(***************************************************************************)
EXTENDS Integers, Sequences, FiniteSets, TLC

\* ------------------------------------------------------------------ bounds
\* commits a remote repository can hold (the first one is there from the start)
MaxCommit == 3
\* runs of main() that are started (the run number is the wall clock of a run)
MaxRuns == 3
\* longest branch list drawn for the branch selection rule
MaxBranches == 3
\* longest description, in lines, drawn for convert_description_to_adf
MaxLines == 4
\* most entries of the directory given to th_collect_all_at_one_place
MaxEntries == 3

\* ------------------------------------------------------- the environment
Repos == {"r1", "r2"}
\* the provider's paginated catalog: one repository per page
Pages == << <<"r1">>, <<"r2">> >>
\* paths of a working tree, in the order git prints them
FileOrder == <<"a.py", "b.py", "c.py">>
Files == {FileOrder[i] : i \in 1..Len(FileOrder)}
BranchNames == {"master", "main", "dev", "feature-x"}
\* branch list the provider returns for each repository, in returned order
RemoteBranches == [r \in Repos |-> IF r = "r1" THEN <<"main", "dev">> ELSE <<"dev", "master", "main">>]
\* project_repo_mapping.csv: repository name -> JIRA project key ("" = no row)
ProjectRepoMap == [r \in Repos |-> IF r = "r1" THEN "SEC" ELSE ""]

\* what a request for refs/branches can come back as
RespKinds == {"ok", "http_error", "malformed", "empty", "no_target", "no_hash"}

\* Python's None for a commit hash
NoneHash == 0
NoRecord == [present |-> FALSE, branch |-> "", hash |-> NoneHash, ts |-> 0]
NoMirror == [head |-> 0, branch |-> ""]
NoInterrupt == [repo |-> "", from |-> NoneHash, to |-> 0]
NoVerdict == [repo |-> "", kind |-> "none", ret |-> FALSE, scans |-> 0]

VARIABLES
    remote_head,    \* head commit of the selected branch of each remote repository
    mirror,         \* all_repos/<name>: NoMirror, or the HEAD commit and the checked-out branch
    db,             \* table repo_updates of repo_tracker.db
    now,            \* number of the current run, used as its wall-clock time
    pc,             \* position of the process: idle (not running), loop, postclone, pull, diff, scan
    repos,          \* main: the catalog fetched by get_repositories
    idx,            \* main: position of the for loop in repos
    updated_repos,  \* main: names for which clone_or_update_repository returned True
    last_commit_hash,    \* locals of clone_or_update_repository
    latest_commit_hash,
    branch_to_clone,
    modified_files,
    fileIdx,        \* position of the for loop over modified_files
    git_status,     \* what os.system returned for git clone / git pull: none (not run), ok, failed
    scanned,        \* calls of run_trufflehog_on_file made so far for the repository being processed
    verdict,        \* what the last finished clone_or_update_repository printed and returned
    exit,           \* how the last run of the process ended, while no run is on
    interrupted,    \* the update the previous run was killed in between pull and save:
                    \* the repository, the recorded commit and the mirror's HEAD at that moment
    branch_names,   \* branch selection rule alone: the list given
    selected,       \* branch selection rule alone: the branch each code path chose
    store_call,     \* State Store alone: the last call made, what it returned, and which
                    \* names have been written so far, with the commit written last
    adf,            \* convert_description_to_adf alone: its input lines, the position of its
                    \* for loop and its locals content, in_code_block, code_block_content
                    \* and bullet_points
    th              \* th_collect_all_at_one_place alone: the listing of the directory, the
                    \* position of its for loop, and the calls made so far

vars == <<remote_head, mirror, db, now, pc, repos, idx, updated_repos, last_commit_hash,
          latest_commit_hash, branch_to_clone, modified_files, fileIdx, git_status, scanned,
          verdict, exit, interrupted, branch_names, selected, store_call, adf, th>>

locals == <<last_commit_hash, latest_commit_hash, branch_to_clone, modified_files, fileIdx,
            git_status, scanned>>
ruleVars == <<branch_names, selected, store_call, adf, th>>

\* --------------------------------------------------------------- helpers
Contains(s, x) == \E i \in 1..Len(s) : s[i] = x

RECURSIVE Flatten(_)
Flatten(ps) == IF ps = <<>> THEN <<>> ELSE Head(ps) \o Flatten(Tail(ps))

RECURSIVE SelectSeq2(_, _, _)
\* the subsequence of s whose elements are in set keep (order of s)
SelectSeq2(s, keep, i) ==
    IF i > Len(s) THEN <<>>
    ELSE (IF s[i] \in keep THEN <<s[i]>> ELSE <<>>) \o SelectSeq2(s, keep, i + 1)

\* head commit of the remote's selected branch
RemoteHead(r) == remote_head[r]

\* The history of a remote branch: commit 1 holds every path; commit c > 1 writes one of
\* the paths before the last, in turn, and every third commit also deletes the last path.
TouchedPath(c) == FileOrder[(c % (Len(FileOrder) - 1)) + 1]
Deletes(c) == c % 3 = 0
Removed == FileOrder[Len(FileOrder)]

RECURSIVE TreeAt(_)
\* the tree of commit c: path -> blob, named by the commit that wrote it (0 = no such file)
TreeAt(c) ==
    IF c <= 1 THEN [f \in Files |-> 1]
    ELSE LET written == [TreeAt(c - 1) EXCEPT ![TouchedPath(c)] = c]
         IN IF Deletes(c) THEN [written EXCEPT ![Removed] = 0] ELSE written

\* the trees of the commits there are, computed once
History == [c \in 0..MaxCommit |-> TreeAt(c)]

Tree(r, c) == History[c]

\* ------------------------------------------------------------ State Store
\* INSERT OR IGNORE instead of REPLACE: an existing row is kept as it is
save_commit_hash_keep_existing(table, repo_name, branch_name, commit_hash, timestamp) ==
    IF table[repo_name].present
    THEN table
    ELSE [table EXCEPT ![repo_name] = [present |-> TRUE, branch |-> branch_name,
                                       hash |-> commit_hash, ts |-> timestamp]]

\* REPLACE INTO repo_updates: the row of repo_name is replaced wholesale
save_commit_hash(table, repo_name, branch_name, commit_hash, timestamp) ==
    [table EXCEPT ![repo_name] = [present |-> TRUE, branch |-> branch_name,
                                  hash |-> commit_hash, ts |-> timestamp]]

\* SELECT last_commit_hash: None when there is no row (or the column is NULL)
get_last_commit_hash(table, repo_name) ==
    IF table[repo_name].present THEN table[repo_name].hash ELSE NoneHash

\* ------------------------------------------------------------- the catalog
RECURSIVE FetchPages(_, _, _)
\* the while loop of get_repositories at page i with fetched gathered so far: a page that
\* fails (status not 200, or a body that is not JSON) returns [], a page that succeeds
\* extends the list and the loop follows 'next'
FetchPages(fetched, i, failAt) ==
    IF i > Len(Pages) THEN fetched
    ELSE IF i = failAt THEN <<>>
    ELSE FetchPages(fetched \o Pages[i], i + 1, failAt)

\* a failing page ends the loop with the pages fetched before it
get_repositories_keep_fetched(failAt) ==
    IF failAt = 0 THEN Flatten(Pages) ELSE Flatten(SubSeq(Pages, 1, failAt - 1))

\* get_repositories, where page failAt fails (0 = none fails)
get_repositories(failAt) == FetchPages(<<>>, 1, failAt)

\* -------------------------------------------------------- branch selection
\* line 140, the update path
BranchToCloneUpdate(names) ==
    IF Contains(names, "master") THEN "master"
    ELSE IF Contains(names, "main") THEN "main" ELSE names[1]

\* the rule with the two preferred names swapped
BranchToCloneRecordMainFirst(names) ==
    IF Contains(names, "main") THEN "main"
    ELSE IF Contains(names, "master") THEN "master" ELSE names[1]

\* line 196, the record written after a clone
BranchToCloneRecord(names) ==
    IF Contains(names, "master") THEN "master"
    ELSE IF Contains(names, "main") THEN "main" ELSE names[1]

\* line 304, clone_repository
BranchToCloneClone(names) ==
    IF Contains(names, "master") THEN "master"
    ELSE IF Contains(names, "main") THEN "main" ELSE names[1]

\* ------------------------------------------------------------------- git
\* git diff --name-only A..HEAD: the paths whose blob differs between the two trees
DiffNameOnly(r, from, to) ==
    SelectSeq2(FileOrder, {f \in Files : Tree(r, from)[f] # Tree(r, to)[f]}, 1)

\* git diff fails when the left revision is the string "None" or a commit the mirror lacks
DiffFails(r, from) == from = NoneHash \/ from > mirror[r].head

\* os.path.isfile(modified_file_path) in the working tree at HEAD
IsFile(r, f) == Tree(r, mirror[r].head)[f] # 0

\* --------------------------------------------------------- Scan Dispatcher
\* what the collaborators do for one file: the report trufflehog leaves and its exit
\* status, whether send_to_slack.py gets its message or file through, what JIRA's
\* create-issue answers and whether JIRA's get-issue answers
ScanOutcomes ==
    { [report |-> "empty", scanner |-> "ok", slack |-> "ok", jira |-> "ok", details |-> TRUE],
      [report |-> "empty", scanner |-> "failed", slack |-> "ok", jira |-> "ok", details |-> TRUE],
      [report |-> "nonempty", scanner |-> "ok", slack |-> "ok", jira |-> "ok", details |-> TRUE],
      [report |-> "nonempty", scanner |-> "ok", slack |-> "ok", jira |-> "ok", details |-> FALSE],
      [report |-> "nonempty", scanner |-> "ok", slack |-> "ok", jira |-> "http_error",
       details |-> FALSE],
      [report |-> "nonempty", scanner |-> "ok", slack |-> "failed", jira |-> "ok",
       details |-> TRUE] }

\* a ticket opened under a default project when the repository has no project key
create_jira_ticket_default_project(repo_name, jira) ==
    IF jira = "ok" THEN "created" ELSE "failed"

\* create_jira_ticket: None with a printed error when the repository has no project key,
\* None when the POST fails, else the issue key
create_jira_ticket(repo_name, jira) ==
    IF ProjectRepoMap[repo_name] = "" THEN "no_project_key"
    ELSE IF jira = "ok" THEN "created" ELSE "failed"

\* the collaborators that failed while one file was processed
Failures(o, ticket) ==
    (IF o.scanner = "failed" THEN {"scanner"} ELSE {})
       \cup (IF o.slack = "failed" THEN {"slack"} ELSE {})
       \cup (IF ticket = "failed" \/ (ticket = "created" /\ ~o.details) THEN {"jira"} ELSE {})

\* run_trufflehog_on_file: the collaborator calls made for one file
run_trufflehog_on_file(repo_name, f, o) ==
    LET found == o.report = "nonempty"
        ticket == IF found THEN create_jira_ticket(repo_name, o.jira) ELSE "not_attempted"
    IN [file |-> f,
        report |-> o.report,
        alert |-> found,
        ticket |-> ticket,
        jira_message |-> (ticket = "created" /\ o.details),
        send_file |-> TRUE,
        failed |-> Failures(o, ticket)]

\* no call of the State Store made yet, no name written
NoCall == [op |-> "none", repo |-> "", branch |-> "", commit |-> NoneHash,
           result |-> NoneHash, written |-> {}, last |-> [r \in Repos |-> NoneHash]]

\* convert_description_to_adf entered with the description split in lines (lines 46-51)
Converting(lines) ==
    [lines |-> lines, i |-> 1, content |-> <<>>, in_code_block |-> FALSE,
     code_block_content |-> <<>>, bullet_points |-> FALSE]

\* names a directory given to th_collect_all_at_one_place can hold, and which of them are
\* directories (os.path.isdir)
EntryNames == {"repoA", "repoB", "README.md", "repoA_th_results.txt"}
IsDir(name) == name \in {"repoA", "repoB"}

\* th_collect_all_at_one_place at the start of its for loop over os.listdir (line 84)
Collecting(listing) ==
    [listing |-> listing, i |-> 1,
     scans |-> [n \in EntryNames |-> 0],
     result |-> [n \in EntryNames |-> "none"],
     alerts |-> [n \in EntryNames |-> 0],
     uploads |-> [n \in EntryNames |-> 0],
     completion |-> 0]

\* how a sqlite3 call of the State Store ends: it returns, or it raises sqlite3.Error
StoreOutcomes == {"ok", "io_error"}

\* ------------------------------------------------------------------- Init
Init ==
    /\ remote_head = [r \in Repos |-> 1]
    /\ mirror = [r \in Repos |-> NoMirror]
    /\ db = [r \in Repos |-> NoRecord]
    /\ now = 0
    /\ pc = "idle"
    /\ repos = <<>>
    /\ idx = 0
    /\ updated_repos = <<>>
    /\ last_commit_hash = NoneHash
    /\ latest_commit_hash = NoneHash
    /\ branch_to_clone = ""
    /\ modified_files = <<>>
    /\ fileIdx = 0
    /\ git_status = "none"
    /\ scanned = <<>>
    /\ verdict = NoVerdict
    /\ exit = "none"
    /\ interrupted = NoInterrupt
    /\ branch_names = <<>>
    /\ selected = <<>>
    /\ store_call = NoCall
    /\ adf = Converting(<<>>)
    /\ th = Collecting(<<>>)

ResetLocals ==
    /\ last_commit_hash' = NoneHash
    /\ latest_commit_hash' = NoneHash
    /\ branch_to_clone' = ""
    /\ modified_files' = <<>>
    /\ fileIdx' = 0
    /\ git_status' = "none"
    /\ scanned' = <<>>

\* the repository the for loop of main is at
Cur == repos[idx]
InLoop == pc = "loop" /\ idx <= Len(repos)

\* clone_or_update_repository returns ret to main's loop (lines 344-345)
Return(kind, ret) ==
    /\ pc' = "loop"
    /\ idx' = idx + 1
    /\ updated_repos' = IF ret THEN Append(updated_repos, Cur) ELSE updated_repos
    /\ verdict' = [repo |-> Cur, kind |-> kind, ret |-> ret, scans |-> Len(scanned)]
    /\ ResetLocals
    /\ UNCHANGED <<repos, now, exit, interrupted>>

\* an exception nobody catches leaves main: the process ends with a traceback
RaiseAs(how) ==
    /\ pc' = "idle"
    /\ exit' = how
    /\ interrupted' = NoInterrupt
    /\ verdict' = [repo |-> Cur, kind |-> "RAISED", ret |-> FALSE, scans |-> Len(scanned)]
    /\ ResetLocals
    /\ UNCHANGED <<repos, idx, updated_repos, now>>

\* response.json() or check_output raises (lines 134, 161, 190, 295)
Raise == RaiseAs("exception")

\* a sqlite3 call of get_last_commit_hash or save_commit_hash raises (lines 72-92)
RaiseStore == RaiseAs("store_error")

\* ------------------------------------------------------------------- main
\* main with the error of init_db caught and printed, the run going on from there
StartRunInitDbErrorLogged ==
    /\ pc = "idle"
    /\ now < MaxRuns
    /\ now' = now + 1
    /\ \E init \in StoreOutcomes, failAt \in 0..Len(Pages) :
         LET fetched == get_repositories(failAt)
         IN CASE init = "io_error" /\ fetched = <<>> ->
                    /\ repos' = <<>>
                    /\ pc' = "idle"
                    /\ idx' = 0
                    /\ exit' = "init_db_error"
                    /\ interrupted' = NoInterrupt
              [] init = "ok" /\ fetched = <<>> ->
                    /\ repos' = <<>>
                    /\ pc' = "idle"
                    /\ idx' = 0
                    /\ exit' = "no_repositories"
                    /\ interrupted' = NoInterrupt
              [] OTHER ->
                    /\ repos' = fetched
                    /\ pc' = "loop"
                    /\ idx' = 1
                    /\ exit' = IF init = "ok" THEN "none" ELSE "init_db_error"
                    /\ interrupted' = interrupted
    /\ updated_repos' = <<>>
    /\ verdict' = NoVerdict
    /\ UNCHANGED <<remote_head, mirror, db, locals, ruleVars>>

\* lines 325-339: load the mapping, init_db, fetch the catalog, start the loop; a
\* sqlite3 error out of init_db leaves main before the catalog is asked for
StartRun ==
    /\ pc = "idle"
    /\ now < MaxRuns
    /\ now' = now + 1
    /\ \E init \in StoreOutcomes, failAt \in 0..Len(Pages) :
         LET fetched == get_repositories(failAt)
         IN CASE init = "io_error" ->
                    /\ repos' = <<>>
                    /\ pc' = "idle"
                    /\ idx' = 0
                    /\ exit' = "init_db_error"
                    /\ interrupted' = NoInterrupt
              [] init = "ok" /\ fetched = <<>> ->
                    /\ repos' = <<>>
                    /\ pc' = "idle"
                    /\ idx' = 0
                    /\ exit' = "no_repositories"
                    /\ interrupted' = NoInterrupt
              [] OTHER ->
                    /\ repos' = fetched
                    /\ pc' = "loop"
                    /\ idx' = 1
                    /\ exit' = "none"
                    /\ interrupted' = interrupted
    /\ updated_repos' = <<>>
    /\ verdict' = NoVerdict
    /\ UNCHANGED <<remote_head, mirror, db, locals, ruleVars>>

\* the for loop is exhausted: main returns
EndRun ==
    /\ pc = "loop"
    /\ idx > Len(repos)
    /\ pc' = "idle"
    /\ exit' = "completed"
    /\ interrupted' = NoInterrupt
    /\ UNCHANGED <<remote_head, mirror, db, now, repos, idx, updated_repos, locals,
                   verdict, ruleVars>>

\* ------------------------------------------- clone_or_update_repository
\* every repository with a mirror taken for updated
ClassifyAlwaysUpdated(last, latest) == "UPDATED"

\* line 153: the repository is unchanged when the recorded commit is the remote head
Classify(last, latest) == IF last = latest THEN "UNCHANGED" ELSE "UPDATED"

\* lines 124-155, the mirror exists: read the record, ask for the branches, classify
UpdateClassify ==
    /\ InLoop
    /\ mirror[Cur] # NoMirror
    /\ \E io \in StoreOutcomes, resp \in RespKinds :
         LET last == get_last_commit_hash(db, Cur)
             latest == RemoteHead(Cur)
         IN CASE io = "io_error" -> RaiseStore /\ UNCHANGED <<remote_head, mirror, db>>
              [] io = "ok" /\ resp = "malformed" ->
                    Raise /\ UNCHANGED <<remote_head, mirror, db>>
              [] io = "ok" /\ resp \in {"http_error", "empty", "no_target", "no_hash"} ->
                    Return("SKIPPED", FALSE) /\ UNCHANGED <<remote_head, mirror, db>>
              [] io = "ok" /\ resp = "ok" /\ Classify(last, latest) = "UNCHANGED" ->
                    Return("UNCHANGED", FALSE) /\ UNCHANGED <<remote_head, mirror, db>>
              [] io = "ok" /\ resp = "ok" /\ Classify(last, latest) = "UPDATED" ->
                    /\ pc' = "pull"
                    /\ last_commit_hash' = last
                    /\ latest_commit_hash' = latest
                    /\ branch_to_clone' = BranchToCloneUpdate(RemoteBranches[Cur])
                    /\ verdict' = NoVerdict
                    /\ UNCHANGED <<remote_head, mirror, db, now, repos, idx, updated_repos,
                                   modified_files, fileIdx, git_status, scanned, exit,
                                   interrupted>>
    /\ UNCHANGED ruleVars

\* the record written right after the pull, before the diff and the scans
GitPullThenSave ==
    /\ pc = "pull"
    /\ \E ok \in BOOLEAN :
         /\ mirror' = IF ok THEN [mirror EXCEPT ![Cur].head = RemoteHead(Cur)] ELSE mirror
         /\ git_status' = IF ok THEN "ok" ELSE "failed"
    /\ db' = save_commit_hash(db, Cur, branch_to_clone, latest_commit_hash, now)
    /\ pc' = "diff"
    /\ UNCHANGED <<remote_head, now, repos, idx, updated_repos, last_commit_hash,
                   latest_commit_hash, branch_to_clone, modified_files, fileIdx, scanned,
                   verdict, exit, interrupted, ruleVars>>

\* line 158: os.system('git pull'), its exit status is not looked at
GitPull ==
    /\ pc = "pull"
    /\ \E ok \in BOOLEAN :
         /\ mirror' = IF ok THEN [mirror EXCEPT ![Cur].head = RemoteHead(Cur)] ELSE mirror
         /\ git_status' = IF ok THEN "ok" ELSE "failed"
    /\ pc' = "diff"
    /\ UNCHANGED <<remote_head, db, now, repos, idx, updated_repos, last_commit_hash,
                   latest_commit_hash, branch_to_clone, modified_files, fileIdx, scanned,
                   verdict, exit, interrupted, ruleVars>>

\* lines 161-163: git diff --name-only last..HEAD through check_output
GitDiff ==
    /\ pc = "diff"
    /\ IF DiffFails(Cur, last_commit_hash)
       THEN Raise
       ELSE /\ modified_files' = DiffNameOnly(Cur, last_commit_hash, mirror[Cur].head)
            /\ fileIdx' = 1
            /\ pc' = "scan"
            /\ UNCHANGED <<now, repos, idx, updated_repos, last_commit_hash,
                           latest_commit_hash, branch_to_clone, git_status, scanned,
                           verdict, exit, interrupted>>
    /\ UNCHANGED <<remote_head, mirror, db, ruleVars>>

\* the collaborators run with their failures raised (subprocess.run with check=True, no
\* try/except around the JIRA requests)
ScanFileChecked ==
    /\ pc = "scan"
    /\ fileIdx <= Len(modified_files)
    /\ LET f == modified_files[fileIdx]
       IN IF IsFile(Cur, f)
          THEN \E o \in ScanOutcomes :
                  LET done == run_trufflehog_on_file(Cur, f, o)
                  IN IF done.failed # {}
                     THEN Raise
                     ELSE /\ scanned' = Append(scanned, done)
                          /\ fileIdx' = fileIdx + 1
                          /\ UNCHANGED <<now, pc, repos, idx, updated_repos, last_commit_hash,
                                         latest_commit_hash, branch_to_clone, modified_files,
                                         git_status, verdict, exit, interrupted>>
          ELSE /\ scanned' = scanned
               /\ fileIdx' = fileIdx + 1
               /\ UNCHANGED <<now, pc, repos, idx, updated_repos, last_commit_hash,
                              latest_commit_hash, branch_to_clone, modified_files,
                              git_status, verdict, exit, interrupted>>
    /\ UNCHANGED <<remote_head, mirror, db, ruleVars>>

\* the loop over modified_files without the os.path.isfile test: every path of the diff
\* is handed to the scanner
ScanFileEveryPath ==
    /\ pc = "scan"
    /\ fileIdx <= Len(modified_files)
    /\ \E o \in ScanOutcomes :
          scanned' = Append(scanned, run_trufflehog_on_file(Cur, modified_files[fileIdx], o))
    /\ fileIdx' = fileIdx + 1
    /\ UNCHANGED <<remote_head, mirror, db, now, pc, repos, idx, updated_repos,
                   last_commit_hash, latest_commit_hash, branch_to_clone, modified_files,
                   git_status, verdict, exit, interrupted, ruleVars>>

\* lines 168-172: one round of the loop over modified_files
ScanFile ==
    /\ pc = "scan"
    /\ fileIdx <= Len(modified_files)
    /\ LET f == modified_files[fileIdx]
       IN IF IsFile(Cur, f)
          THEN \E o \in ScanOutcomes :
                  scanned' = Append(scanned, run_trufflehog_on_file(Cur, f, o))
          ELSE scanned' = scanned
    /\ fileIdx' = fileIdx + 1
    /\ UNCHANGED <<remote_head, mirror, db, now, pc, repos, idx, updated_repos,
                   last_commit_hash, latest_commit_hash, branch_to_clone, modified_files,
                   git_status, verdict, exit, interrupted, ruleVars>>

\* lines 176-178: the loop is over, write the record and return True
SaveCommit ==
    /\ pc = "scan"
    /\ fileIdx > Len(modified_files)
    /\ \E io \in StoreOutcomes :
         IF io = "io_error"
         THEN RaiseStore /\ UNCHANGED db
         ELSE /\ db' = save_commit_hash(db, Cur, branch_to_clone, latest_commit_hash, now)
              /\ Return("UPDATED", TRUE)
    /\ UNCHANGED <<remote_head, mirror, ruleVars>>

\* lines 180-182 and clone_repository (279-310): no mirror, ask for the branches and clone
CloneRepository ==
    /\ InLoop
    /\ mirror[Cur] = NoMirror
    /\ \E resp \in RespKinds, ok \in BOOLEAN :
         CASE resp = "malformed" -> Raise /\ UNCHANGED mirror
           [] resp \in {"http_error", "empty"} ->
                 /\ pc' = "postclone"
                 /\ verdict' = NoVerdict
                 /\ UNCHANGED <<mirror, now, repos, idx, updated_repos, locals, exit,
                                interrupted>>
           [] OTHER ->
                 /\ mirror' = IF ok
                              THEN [mirror EXCEPT ![Cur] =
                                      [head |-> RemoteHead(Cur),
                                       branch |-> BranchToCloneClone(RemoteBranches[Cur])]]
                              ELSE mirror
                 /\ git_status' = IF ok THEN "ok" ELSE "failed"
                 /\ pc' = "postclone"
                 /\ verdict' = NoVerdict
                 /\ UNCHANGED <<now, repos, idx, updated_repos, last_commit_hash,
                                latest_commit_hash, branch_to_clone, modified_files, fileIdx,
                                scanned, exit, interrupted>>
    /\ UNCHANGED <<remote_head, db, ruleVars>>

\* the new repository's working tree handed to the scanner before the record is written
PostCloneRecordScanning ==
    /\ pc = "postclone"
    /\ \E resp \in RespKinds, io \in StoreOutcomes :
         CASE resp = "malformed" -> Raise /\ UNCHANGED db
           [] resp \in {"http_error", "empty", "no_target"} ->
                 Return("SKIPPED", FALSE) /\ UNCHANGED db
           [] resp \in {"ok", "no_hash"} /\ io = "io_error" -> RaiseStore /\ UNCHANGED db
           [] OTHER ->
                 /\ db' = save_commit_hash(db, Cur, BranchToCloneRecord(RemoteBranches[Cur]),
                                           IF resp = "no_hash" THEN NoneHash ELSE RemoteHead(Cur),
                                           now)
                 /\ pc' = "loop"
                 /\ idx' = idx + 1
                 /\ updated_repos' = Append(updated_repos, Cur)
                 /\ verdict' = [repo |-> Cur, kind |-> "NEW", ret |-> TRUE,
                                scans |-> Len(FileOrder)]
                 /\ ResetLocals
                 /\ UNCHANGED <<repos, now, exit, interrupted>>
    /\ UNCHANGED <<remote_head, mirror, ruleVars>>

\* lines 183-207: ask for the branches again and write the record of the new repository
PostCloneRecord ==
    /\ pc = "postclone"
    /\ \E resp \in RespKinds, io \in StoreOutcomes :
         CASE resp = "malformed" -> Raise /\ UNCHANGED db
           [] resp \in {"http_error", "empty", "no_target"} ->
                 Return("SKIPPED", FALSE) /\ UNCHANGED db
           [] resp \in {"ok", "no_hash"} /\ io = "io_error" -> RaiseStore /\ UNCHANGED db
           [] OTHER ->
                 /\ db' = save_commit_hash(db, Cur, BranchToCloneRecord(RemoteBranches[Cur]),
                                           IF resp = "no_hash" THEN NoneHash ELSE RemoteHead(Cur),
                                           now)
                 /\ Return("NEW", TRUE)
    /\ UNCHANGED <<remote_head, mirror, ruleVars>>

\* ------------------------------------------------------- the environment
\* the process is killed (or the machine stops) between two steps of a run
Crash ==
    /\ pc # "idle"
    /\ pc' = "idle"
    /\ exit' = "crash"
    /\ interrupted' = IF pc \in {"diff", "scan"}
                      THEN [repo |-> Cur, from |-> last_commit_hash, to |-> mirror[Cur].head]
                      ELSE NoInterrupt
    /\ ResetLocals
    /\ UNCHANGED <<remote_head, mirror, db, now, repos, idx, updated_repos, verdict,
                   ruleVars>>

\* somebody pushes the next commit to the selected branch of a remote repository
Push ==
    \E r \in Repos :
       /\ remote_head[r] < MaxCommit
       /\ remote_head' = [remote_head EXCEPT ![r] = @ + 1]
       /\ UNCHANGED <<mirror, db, now, pc, repos, idx, updated_repos, locals,
                      verdict, exit, interrupted, ruleVars>>

Next ==
    \/ StartRun
    \/ EndRun
    \/ UpdateClassify
    \/ GitPull
    \/ GitDiff
    \/ ScanFile
    \/ SaveCommit
    \/ CloneRepository
    \/ PostCloneRecord
    \/ Crash
    \/ Push

Spec == Init /\ [][Next]_vars

\* ------------------------------------------- the branch selection rule alone
RECURSIVE SeqsUpTo(_)
\* the branch lists of at most n names, no name twice
SeqsUpTo(n) ==
    IF n = 0 THEN {<<>>}
    ELSE LET shorter == SeqsUpTo(n - 1)
         IN shorter \cup {Append(s, b) : s \in shorter, b \in BranchNames}

BranchLists ==
    {s \in SeqsUpTo(MaxBranches) :
        /\ s # <<>>
        /\ \A i, j \in 1..Len(s) : i # j => s[i] # s[j]}

NoneSelected == [clone |-> "", record |-> "", update |-> ""]

InitBranch ==
    /\ branch_names \in BranchLists
    /\ selected = NoneSelected
    /\ store_call = NoCall
    /\ adf = Converting(<<>>)
    /\ th = Collecting(<<>>)
    /\ remote_head = [r \in Repos |-> 1]
    /\ mirror = [r \in Repos |-> NoMirror]
    /\ db = [r \in Repos |-> NoRecord]
    /\ now = 0
    /\ pc = "idle"
    /\ repos = <<>>
    /\ idx = 0
    /\ updated_repos = <<>>
    /\ last_commit_hash = NoneHash
    /\ latest_commit_hash = NoneHash
    /\ branch_to_clone = ""
    /\ modified_files = <<>>
    /\ fileIdx = 0
    /\ git_status = "none"
    /\ scanned = <<>>
    /\ verdict = NoVerdict
    /\ exit = "none"
    /\ interrupted = NoInterrupt

mainVars == <<remote_head, mirror, db, now, pc, repos, idx, updated_repos, locals, verdict,
              exit, interrupted, store_call, adf, th>>

\* clone_repository selects the branch to clone (line 304)
SelectForClone ==
    /\ selected.clone = ""
    /\ selected' = [selected EXCEPT !.clone = BranchToCloneClone(branch_names)]
    /\ UNCHANGED <<branch_names, mainVars>>

\* the new-repository path selects the branch to record (line 196)
SelectForRecord ==
    /\ selected.record = ""
    /\ selected' = [selected EXCEPT !.record = BranchToCloneRecord(branch_names)]
    /\ UNCHANGED <<branch_names, mainVars>>

\* the update path selects the branch to compare and record (line 140)
SelectForUpdate ==
    /\ selected.update = ""
    /\ selected' = [selected EXCEPT !.update = BranchToCloneUpdate(branch_names)]
    /\ UNCHANGED <<branch_names, mainVars>>

NextBranch == SelectForClone \/ SelectForRecord \/ SelectForUpdate

SpecBranch == InitBranch /\ [][NextBranch]_vars

\* ------------------------------------------------- the State Store alone
\* the table as init_db leaves it on a fresh repo_tracker.db
InitStore ==
    /\ db = [r \in Repos |-> NoRecord]
    /\ store_call = NoCall
    /\ adf = Converting(<<>>)
    /\ th = Collecting(<<>>)
    /\ remote_head = [r \in Repos |-> 1]
    /\ mirror = [r \in Repos |-> NoMirror]
    /\ now = 0
    /\ pc = "idle"
    /\ repos = <<>>
    /\ idx = 0
    /\ updated_repos = <<>>
    /\ last_commit_hash = NoneHash
    /\ latest_commit_hash = NoneHash
    /\ branch_to_clone = ""
    /\ modified_files = <<>>
    /\ fileIdx = 0
    /\ git_status = "none"
    /\ scanned = <<>>
    /\ verdict = NoVerdict
    /\ exit = "none"
    /\ interrupted = NoInterrupt
    /\ branch_names = <<>>
    /\ selected = <<>>

storeFixed == <<remote_head, mirror, now, pc, repos, idx, updated_repos, locals, verdict,
                exit, interrupted, branch_names, selected, adf, th>>

\* a call save_commit_hash(repo_name, branch_name, commit_hash); the code also passes None
\* for the commit (line 201)
CallSave ==
    \E r \in Repos, b \in {"master", "main"}, c \in NoneHash..MaxCommit :
       /\ db' = save_commit_hash(db, r, b, c, now)
       /\ store_call' = [op |-> "put", repo |-> r, branch |-> b, commit |-> c,
                         result |-> NoneHash,
                         written |-> store_call.written \cup {r},
                         last |-> [store_call.last EXCEPT ![r] = c]]
       /\ UNCHANGED storeFixed

\* a call get_last_commit_hash(repo_name)
CallGet ==
    \E r \in Repos :
       /\ store_call' = [store_call EXCEPT !.op = "get", !.repo = r, !.branch = "",
                                           !.commit = NoneHash,
                                           !.result = get_last_commit_hash(db, r)]
       /\ UNCHANGED <<db, storeFixed>>

NextStore == CallSave \/ CallGet

SpecStore == InitStore /\ [][NextStore]_vars

\* ------------------------------------- convert_description_to_adf alone
\* what a line of the description can be: a code fence, a bullet, a bold line, an empty
\* line, any other text
LineKinds == {"fence", "bullet", "bold", "empty", "plain"}

RECURSIVE Descriptions(_)
\* the descriptions of at most n lines
Descriptions(n) ==
    IF n = 0 THEN {<<>>}
    ELSE LET shorter == Descriptions(n - 1)
         IN shorter \cup {Append(d, k) : d \in shorter, k \in LineKinds}

\* the ADF nodes the function builds; a text node has no children
TextNode(text, strong) == [type |-> "text", text |-> text, strong |-> strong, content |-> <<>>]
Node(type, children) == [type |-> type, text |-> <<>>, strong |-> FALSE, content |-> children]
Paragraph(text, strong) == Node("paragraph", <<TextNode(text, strong)>>)

InitAdf ==
    /\ adf \in {Converting(d) : d \in Descriptions(MaxLines)}
    /\ th = Collecting(<<>>)
    /\ store_call = NoCall
    /\ db = [r \in Repos |-> NoRecord]
    /\ remote_head = [r \in Repos |-> 1]
    /\ mirror = [r \in Repos |-> NoMirror]
    /\ now = 0
    /\ pc = "idle"
    /\ repos = <<>>
    /\ idx = 0
    /\ updated_repos = <<>>
    /\ last_commit_hash = NoneHash
    /\ latest_commit_hash = NoneHash
    /\ branch_to_clone = ""
    /\ modified_files = <<>>
    /\ fileIdx = 0
    /\ git_status = "none"
    /\ scanned = <<>>
    /\ verdict = NoVerdict
    /\ exit = "none"
    /\ interrupted = NoInterrupt
    /\ branch_names = <<>>
    /\ selected = <<>>

\* one round of the for loop over lines (createJIRA.py lines 53-144)
ConvertLine ==
    /\ adf.i <= Len(adf.lines)
    /\ LET line == adf.lines[adf.i]
           content == adf.content
           step == [adf EXCEPT !.i = @ + 1]
       IN adf' =
            CASE line = "fence" /\ ~adf.in_code_block ->
                    [step EXCEPT !.in_code_block = TRUE, !.code_block_content = <<>>]
              [] line = "fence" /\ adf.in_code_block ->
                    [step EXCEPT !.in_code_block = FALSE,
                                 !.content = Append(content,
                                    Node("codeBlock",
                                         <<TextNode(adf.code_block_content, FALSE)>>))]
              [] line # "fence" /\ adf.in_code_block ->
                    [step EXCEPT !.code_block_content = Append(@, line)]
              [] line = "bullet" /\ ~adf.in_code_block ->
                    LET started == IF adf.bullet_points THEN content
                                   ELSE Append(content, Node("bulletList", <<>>))
                        item == Node("listItem", <<Paragraph(<<line>>, FALSE)>>)
                    IN [step EXCEPT !.bullet_points = TRUE,
                                    !.content = [started EXCEPT ![Len(started)].content =
                                                    Append(@, item)]]
              [] OTHER ->
                    [step EXCEPT !.bullet_points = FALSE,
                                 !.content = Append(content,
                                    Paragraph(IF line = "empty" THEN <<>> ELSE <<line>>,
                                              line = "bold"))]
    /\ UNCHANGED <<db, store_call, th, remote_head, mirror, now, pc, repos, idx,
                   updated_repos, locals, verdict, exit, interrupted, branch_names, selected>>

NextAdf == ConvertLine

SpecAdf == InitAdf /\ [][NextAdf]_vars

\* ---------------------------------------- th_collect_all_at_one_place alone
RECURSIVE Listings(_)
\* what os.listdir can return: at most n names, none twice, in any order
Listings(n) ==
    IF n = 0 THEN {<<>>}
    ELSE LET shorter == Listings(n - 1)
         IN shorter \cup
            UNION {{Append(l, e) : e \in EntryNames \ {l[k] : k \in 1..Len(l)}} : l \in shorter}

InitCollect ==
    /\ th \in {Collecting(l) : l \in Listings(MaxEntries)}
    /\ adf = Converting(<<>>)
    /\ store_call = NoCall
    /\ db = [r \in Repos |-> NoRecord]
    /\ remote_head = [r \in Repos |-> 1]
    /\ mirror = [r \in Repos |-> NoMirror]
    /\ now = 0
    /\ pc = "idle"
    /\ repos = <<>>
    /\ idx = 0
    /\ updated_repos = <<>>
    /\ last_commit_hash = NoneHash
    /\ latest_commit_hash = NoneHash
    /\ branch_to_clone = ""
    /\ modified_files = <<>>
    /\ fileIdx = 0
    /\ git_status = "none"
    /\ scanned = <<>>
    /\ verdict = NoVerdict
    /\ exit = "none"
    /\ interrupted = NoInterrupt
    /\ branch_names = <<>>
    /\ selected = <<>>

collectFixed == <<db, store_call, adf, remote_head, mirror, now, pc, repos, idx,
                  updated_repos, locals, verdict, exit, interrupted, branch_names, selected>>

\* the result file uploaded whatever its size, after the alert for an empty one
ProcessFolderUploadAlways ==
    /\ th.i <= Len(th.listing)
    /\ LET foldername == th.listing[th.i]
       IN IF IsDir(foldername)
          THEN \E size \in {"empty", "nonempty"} :
                  th' = [th EXCEPT !.i = @ + 1,
                                   !.scans[foldername] = @ + 1,
                                   !.result[foldername] = size,
                                   !.alerts[foldername] = IF size = "empty" THEN @ + 1 ELSE @,
                                   !.uploads[foldername] = @ + 1]
          ELSE th' = [th EXCEPT !.i = @ + 1]
    /\ UNCHANGED collectFixed

\* lines 84-106: one round of the for loop: a directory is scanned into its result file,
\* then alerted for when the file is empty, uploaded otherwise; trufflehog's exit status
\* is not looked at and the Slack functions catch SlackApiError
ProcessFolder ==
    /\ th.i <= Len(th.listing)
    /\ LET foldername == th.listing[th.i]
       IN IF IsDir(foldername)
          THEN \E size \in {"empty", "nonempty"} :
                  th' = [th EXCEPT !.i = @ + 1,
                                   !.scans[foldername] = @ + 1,
                                   !.result[foldername] = size,
                                   !.alerts[foldername] = IF size = "empty" THEN @ + 1 ELSE @,
                                   !.uploads[foldername] = IF size = "empty" THEN @ ELSE @ + 1]
          ELSE th' = [th EXCEPT !.i = @ + 1]
    /\ UNCHANGED collectFixed

\* line 109: the loop is over, send_completion_message, and the script ends
SendCompletion ==
    /\ th.i = Len(th.listing) + 1
    /\ th' = [th EXCEPT !.i = @ + 1, !.completion = @ + 1]
    /\ UNCHANGED collectFixed

NextCollect == ProcessFolder \/ SendCompletion

SpecCollect == InitCollect /\ [][NextCollect]_vars

\* ================================================================ claims
Range(s) == {s[i] : i \in 1..Len(s)}

\* C9: the selected branch is 'master' if the list has it, else 'main' if the list has it,
\* else the first branch in returned order; <<"main","dev">> gives "main",
\* <<"master","main">> gives "master", <<"feature-x">> gives "feature-x"; and the clone
\* path, the post-clone record path and the update path select the same branch for the
\* same list.
C9_Rule(names) ==
    CASE "master" \in Range(names) -> "master"
      [] "master" \notin Range(names) /\ "main" \in Range(names) -> "main"
      [] OTHER -> Head(names)

C9_BranchSelection ==
    /\ \A path \in {"clone", "record", "update"} :
          selected[path] # "" => selected[path] = C9_Rule(branch_names)
    /\ branch_names = <<"main", "dev">> =>
          \A path \in {"clone", "record", "update"} : selected[path] \in {"", "main"}
    /\ branch_names = <<"master", "main">> =>
          \A path \in {"clone", "record", "update"} : selected[path] \in {"", "master"}
    /\ branch_names = <<"feature-x">> =>
          \A path \in {"clone", "record", "update"} : selected[path] \in {"", "feature-x"}

\* the three paths have chosen for a list that holds master after main
C9_Witness ==
    /\ branch_names = <<"dev", "main", "master">>
    /\ selected = [clone |-> "master", record |-> "master", update |-> "master"]

\* C10: a non-empty scan result of a repository without a row in the mapping table still
\* sends the alert (and the result file), prints the skip of the ticket, creates no ticket
\* and sends no ticket message, and the processing of the repository goes on.
C10_MissingKeyStillAlerts ==
    \A i \in 1..Len(scanned) :
       (scanned[i].report = "nonempty" /\ ProjectRepoMap[Cur] = "") =>
          /\ scanned[i].alert
          /\ scanned[i].send_file
          /\ scanned[i].ticket = "no_project_key"
          /\ ~scanned[i].jira_message
          /\ pc = "scan"
          /\ fileIdx > i

C10_Witness ==
    /\ pc = "scan"
    /\ ProjectRepoMap[Cur] = ""
    /\ \E i \in 1..Len(scanned) :
          scanned[i].report = "nonempty" /\ scanned[i].alert /\ scanned[i].ticket = "no_project_key"

\* ---------------------------------------------------------------- C1
\* the paths handed to the scanner so far, in order
ScannedFiles == [i \in 1..Len(scanned) |-> scanned[i].file]
\* the paths of a diff that are files of the mirror's working tree
FilesOf(r, paths) == SelectSeq2(paths, {f \in Files : IsFile(r, f)}, 1)

\* the previous run was killed with the mirror of the current repository fast-forwarded
\* to commit B (to) and its record still at commit A (from)
C1_Interrupted ==
    /\ pc # "idle"
    /\ idx <= Len(repos)
    /\ interrupted.repo = Cur
    /\ interrupted.from # NoneHash
    /\ interrupted.to > interrupted.from

\* C1: after a run was killed between the fast-forward to B and save_commit_hash, the next
\* run never classifies the repository UNCHANGED (it returns early only when the provider
\* fails, otherwise it goes on to the pull), its git diff does not fail and, with HEAD
\* still at B, yields the A-to-B changed files, every one of which that is a file is handed
\* to the scanner before the record is written.
C1_CrashRecovery ==
    [][ C1_Interrupted =>
          /\ (pc = "loop" /\ verdict' # verdict) =>
                verdict'.kind \in {"none", "SKIPPED", "RAISED"}
          /\ (pc = "loop" /\ pc' \notin {"loop", "idle"}) =>
                (pc' = "pull" /\ last_commit_hash' = interrupted.from)
          /\ pc = "diff" => (pc' \in {"diff", "scan"} \/ exit' = "crash")
          /\ (pc = "diff" /\ pc' = "scan" /\ mirror[Cur].head = interrupted.to) =>
                modified_files' = DiffNameOnly(Cur, interrupted.from, interrupted.to)
          /\ (pc = "scan" /\ pc' = "loop" /\ mirror[Cur].head = interrupted.to) =>
                /\ verdict'.kind = "UPDATED"
                /\ ScannedFiles = FilesOf(Cur, DiffNameOnly(Cur, interrupted.from, interrupted.to))
      ]_vars

\* the run after the kill has recomputed the A-to-B diff and scanned a file of it
C1_Witness ==
    /\ C1_Interrupted
    /\ pc = "scan"
    /\ mirror[Cur].head = interrupted.to
    /\ modified_files = DiffNameOnly(Cur, interrupted.from, interrupted.to)
    /\ fileIdx > Len(modified_files)
    /\ Len(scanned) >= 1

\* ---------------------------------------------------------------- C2
\* C2: whenever the record of a repository moves from commit A to commit B, the loop over
\* the changed files has been run first, over a list that holds every path changed between
\* A and B, and each such path that is a file was handed to the scanner.
C2_NoAdvanceWithoutScan ==
    [][ \A r \in Repos :
          (db[r].present /\ db[r].hash # NoneHash /\ db'[r].hash # NoneHash
             /\ db'[r].hash # db[r].hash) =>
             /\ pc = "scan"
             /\ fileIdx > Len(modified_files)
             /\ \A f \in Range(DiffNameOnly(r, db[r].hash, db'[r].hash)) :
                   /\ f \in Range(modified_files)
                   /\ IsFile(r, f) => f \in Range(ScannedFiles)
      ]_vars

\* ---------------------------------------------------------------- C3
\* C3: when git clone or git pull fails, the State Store keeps the record (or the absence
\* of a record) it held before the run.
C3_MirrorFailureKeepsRecord == [][ git_status = "failed" => db' = db ]_vars

\* ---------------------------------------------------------------- C4
\* C4: a run of main that ended by itself (it was not killed) has processed every
\* repository of the catalog: a failure in one repository never ends the loop.
C4_BatchNeverAborted ==
    (pc = "idle" /\ exit \in {"completed", "exception", "store_error"}) => idx > Len(repos)

\* ---------------------------------------------------------------- C5
\* the mirror exists and the record holds the head commit of the remote's selected branch
C5_UpToDate ==
    /\ InLoop
    /\ mirror[Cur] # NoMirror
    /\ db[Cur].present
    /\ db[Cur].hash # NoneHash
    /\ db[Cur].hash = RemoteHead(Cur)

\* C5: processing a repository whose mirror exists and whose record holds the remote head
\* leaves the State Store (branch, commit and timestamp) and the mirror as they were, pulls
\* nothing, scans nothing and does not report the repository as updated; so the same holds
\* for the next run.
C5_IdempotentNoOp ==
    [][ C5_UpToDate =>
          /\ db' = db
          /\ mirror' = mirror
          /\ pc' \in {"loop", "idle"}
          /\ scanned' = <<>>
          /\ updated_repos' = updated_repos
          /\ verdict' # verdict => (~verdict'.ret /\ verdict'.scans = 0)
      ]_vars

\* the third run finds r1 unchanged, its record still the one the first run wrote
C5_Witness ==
    /\ now = 3
    /\ verdict = [repo |-> "r1", kind |-> "UNCHANGED", ret |-> FALSE, scans |-> 0]
    /\ db["r1"].present
    /\ db["r1"].ts = 1
    /\ db["r1"].hash = RemoteHead("r1")
    /\ updated_repos = <<>>

\* ---------------------------------------------------------------- C6
\* C6: the changed-file set computed by the update that moves the record from A to B is
\* the diff between A and B, and a repository whose record holds the remote head is not
\* diffed again.
C6_ExactlyOneDiffPerAdvance ==
    [][ /\ \A r \in Repos :
             (pc = "scan" /\ db[r].present /\ db[r].hash # NoneHash /\ db'[r].hash # db[r].hash) =>
                modified_files = DiffNameOnly(r, db[r].hash, db'[r].hash)
        /\ C5_UpToDate => pc' # "pull"
      ]_vars

\* ---------------------------------------------------------------- C7
\* C7: in the update path the record is written only after git pull succeeded and the
\* loop over the changed files has been run.
C7_SaveAfterMirrorAndScan ==
    [][ (pc \in {"pull", "diff", "scan"} /\ db' # db) =>
          (pc = "scan" /\ git_status = "ok" /\ fileIdx > Len(modified_files))
      ]_vars

\* ---------------------------------------------------------------- C8
\* C8: a repository with no mirror and no record that is cloned is reported NEW with zero
\* scans, its mirror is on the selected branch, and the record written holds the selected
\* branch and, when the provider gives one, the head commit of that branch.
C8_FreshCloneNoScan ==
    [][ /\ (InLoop /\ mirror[Cur] = NoMirror /\ ~db[Cur].present) =>
              /\ db' = db
              /\ scanned' = <<>>
              /\ pc' \in {"loop", "postclone", "idle"}
              /\ mirror'[Cur] # NoMirror =>
                    mirror'[Cur] = [head |-> RemoteHead(Cur),
                                    branch |-> C9_Rule(RemoteBranches[Cur])]
        /\ (pc = "postclone" /\ git_status = "ok" /\ ~db[Cur].present /\ verdict' # verdict) =>
              /\ verdict'.kind \in {"NEW", "SKIPPED", "RAISED"}
              /\ verdict'.scans = 0
              /\ verdict'.kind = "NEW" =>
                    /\ verdict'.ret
                    /\ updated_repos' = Append(updated_repos, Cur)
                    /\ db'[Cur].present
                    /\ db'[Cur].branch = C9_Rule(RemoteBranches[Cur])
                    /\ db'[Cur].branch = mirror[Cur].branch
                    /\ db'[Cur].hash # NoneHash => db'[Cur].hash = RemoteHead(Cur)
                    /\ \A r \in Repos \ {Cur} : db'[r] = db[r]
              /\ verdict'.kind # "NEW" => db' = db
      ]_vars

\* the first run has cloned r2 and recorded it, with no scan
C8_Witness ==
    /\ now = 1
    /\ verdict = [repo |-> "r2", kind |-> "NEW", ret |-> TRUE, scans |-> 0]
    /\ mirror["r2"] = [head |-> RemoteHead("r2"), branch |-> "master"]
    /\ db["r2"] = [present |-> TRUE, branch |-> "master", hash |-> RemoteHead("r2"), ts |-> 1]

\* ---------------------------------------------------------------- C11
\* C11: a repository whose branch list could not be had (clone_repository got a non-2xx
\* answer or an empty list and returned without cloning) is skipped for this run: the
\* State Store is left as it was and the call returns False without a classification.
C11_UnavailableBranchesSkip ==
    [][ (pc = "postclone" /\ git_status = "none") =>
          /\ db' = db
          /\ verdict' # verdict => verdict'.kind = "SKIPPED"
      ]_vars

\* ---------------------------------------------------------------- C12
\* C12: the State Store never holds a record whose commit hash is absent or empty: a
\* repository whose selected branch has no head commit is skipped and nothing is written.
C12_NoRecordWithoutHash ==
    \A r \in Repos : db[r].present => db[r].hash # NoneHash

\* ---------------------------------------------------------------- C13
\* C13: a run in which a read or a write of the State Store failed has still gone through
\* every repository of the catalog: the failure ends the processing of that repository
\* only.
C13_StoreFailureAbortsRepositoryOnly ==
    (pc = "idle" /\ exit = "store_error") => idx > Len(repos)

\* ---------------------------------------------------------------- C14
\* the mirror of the current repository exists and the State Store has no record of it
C14_MirrorWithoutRecord ==
    /\ InLoop
    /\ mirror[Cur] # NoMirror
    /\ ~db[Cur].present

\* C14: a repository whose mirror exists without a record, when the provider answers, goes
\* on to the pull with an empty baseline; the changed-file set computed against the empty
\* baseline is the file listing at HEAD, and the update ends with the record holding the
\* remote head.
C14_EmptyBaselineScansHead ==
    [][ /\ (C14_MirrorWithoutRecord /\ pc' \notin {"loop", "idle"}) =>
              (pc' = "pull" /\ last_commit_hash' = NoneHash)
        /\ (pc = "diff" /\ last_commit_hash = NoneHash /\ ~db[Cur].present
              /\ pc' # "diff" /\ exit' # "crash") =>
              /\ pc' = "scan"
              /\ modified_files' = FilesOf(Cur, FileOrder)
        /\ (pc = "scan" /\ last_commit_hash = NoneHash /\ pc' = "loop") =>
              db'[Cur].hash = latest_commit_hash
      ]_vars

C16_InitDbFailureAbortsRun ==
    [][ exit' = "init_db_error" =>
          /\ pc' = "idle"
          /\ repos' = <<>>
          /\ idx' = 0
          /\ db' = db
          /\ mirror' = mirror
          /\ scanned' = <<>>
          /\ updated_repos' = <<>>
      ]_vars

\* the second run failed in init_db, after a first run that had cloned and recorded r1
C16_Witness ==
    /\ pc = "idle"
    /\ exit = "init_db_error"
    /\ now = 2
    /\ mirror["r1"] # NoMirror
    /\ db["r1"].present

C18_AlertsPerNonEmptyFile ==
    /\ Cardinality({i \in 1..Len(scanned) : scanned[i].alert})
          = Cardinality({i \in 1..Len(scanned) : scanned[i].report = "nonempty"})
    /\ \A i \in 1..Len(scanned) :
          /\ scanned[i].report = "empty" =>
                /\ ~scanned[i].alert
                /\ ~scanned[i].send_file
                /\ scanned[i].ticket = "not_attempted"
                /\ ~scanned[i].jira_message
          /\ scanned[i].report = "nonempty" =>
                /\ scanned[i].alert
                /\ scanned[i].ticket # "not_attempted"

\* ---------------------------------------------------------------- C19
\* C19: the record of a repository is created only by a successful NEW classification (the
\* repository had no mirror and was cloned), an existing record is replaced only by an
\* UPDATED classification (at the end of the update path), and no step deletes a record.
C19_RecordLifecycle ==
    [][ \A r \in Repos :
          /\ (~db[r].present /\ db'[r].present) =>
                (pc = "postclone" /\ r = Cur /\ git_status = "ok" /\ verdict'.kind = "NEW")
          /\ (db[r].present /\ db'[r] # db[r]) =>
                (pc = "scan" /\ r = Cur /\ db'[r].present /\ verdict'.kind = "UPDATED")
          /\ db[r].present => db'[r].present
      ]_vars

\* ---------------------------------------------------------------- C20
\* what the State Store answers for each name, given the calls made so far
C20_StoreAgrees ==
    /\ \A r \in Repos :
          get_last_commit_hash(db, r) =
             IF r \in store_call.written THEN store_call.last[r] ELSE NoneHash
    /\ store_call.op = "get" =>
          store_call.result =
             IF store_call.repo \in store_call.written
             THEN store_call.last[store_call.repo]
             ELSE NoneHash

\* C20: after save_commit_hash(name, branch, commit), get_last_commit_hash(name) returns
\* that commit whatever the table held for the name before (the row is replaced: its
\* branch is the one given too); the rows of the other names are as they were; and
\* get_last_commit_hash of a name never written returns None.
C20_PutGetRoundTrip ==
    [][ /\ C20_StoreAgrees'
        /\ store_call'.op = "put" =>
              /\ get_last_commit_hash(db', store_call'.repo) = store_call'.commit
              /\ db'[store_call'.repo].branch = store_call'.branch
              /\ \A o \in Repos \ {store_call'.repo} : db'[o] = db[o]
      ]_vars

\* r1 was written, last with commit 2 on main, r2 never: the read of r1 gives commit 2
C20_Witness ==
    /\ store_call.op = "get"
    /\ store_call.repo = "r1"
    /\ store_call.written = {"r1"}
    /\ store_call.result = 2
    /\ db["r1"] = [present |-> TRUE, branch |-> "main", hash |-> 2, ts |-> 0]
    /\ ~db["r2"].present

\* ---------------------------------------------------------------- C21
\* C21: whenever the processing of a repository ends successfully (git clone or git pull
\* succeeded, a commit was recorded, the call returned True), the commit recorded is the
\* commit the mirror's HEAD is at, also when somebody pushed while the run was on.
C21_RecordIsMirrorHead ==
    [][ (pc \in {"postclone", "scan"} /\ git_status = "ok" /\ verdict' # verdict
           /\ verdict'.kind \in {"NEW", "UPDATED"} /\ db'[Cur].hash # NoneHash) =>
          db'[Cur].hash = mirror'[Cur].head
      ]_vars

\* ---------------------------------------------------------------- C22
\* C22: the list of updated repositories main builds holds exactly the repositories
\* classified UPDATED in the run: a repository is appended to it when, and only when, its
\* processing ends with the classification UPDATED (a NEW repository goes to the list of
\* new repositories, not to this one).
C22_SummaryDistinguishesClassifications ==
    [][ /\ (verdict' # verdict /\ verdict'.kind = "UPDATED") =>
              updated_repos' = Append(updated_repos, Cur)
        /\ (pc # "idle" /\ pc' # "idle" /\ updated_repos' # updated_repos) =>
              verdict'.kind = "UPDATED"
      ]_vars

\* ---------------------------------------------------------------- C23
\* C23: the catalog a run starts with is either every page of the provider's catalog, in
\* cursor order, or empty (a page failed: the pages fetched before it are dropped); a run
\* whose catalog is empty ends at once, with no repository processed, no mirror touched and
\* no record written.
C23_CatalogAllOrNothing ==
    [][ (pc = "idle" /\ now' # now) =>
          /\ repos' \in {<<>>, Flatten(Pages)}
          /\ repos' = <<>> =>
                /\ pc' = "idle"
                /\ idx' = 0
                /\ db' = db
                /\ mirror' = mirror
                /\ updated_repos' = <<>>
          /\ repos' # <<>> => (pc' = "loop" /\ idx' = 1)
      ]_vars

\* the second run could not fetch the catalog, after a first run that recorded r1 and r2:
\* it ended with nothing processed
C23_Witness ==
    /\ pc = "idle"
    /\ exit = "no_repositories"
    /\ repos = <<>>
    /\ now = 2
    /\ db["r1"].present /\ db["r1"].ts = 1
    /\ db["r2"].present /\ db["r2"].ts = 1

\* ---------------------------------------------------------------- C24
\* C24: in the document convert_description_to_adf returns, whatever the lines given, a
\* listItem node is found only among the children of a bulletList node, and the children
\* of a codeBlock node are its one text node and nothing else.
C24_AdfWellFormed ==
    adf.i > Len(adf.lines) =>
       \A k \in 1..Len(adf.content) :
          LET node == adf.content[k]
          IN /\ node.type # "listItem"
             /\ \A c \in 1..Len(node.content) :
                   node.content[c].type = "listItem" => node.type = "bulletList"
             /\ node.type = "codeBlock" =>
                   (Len(node.content) = 1 /\ node.content[1].type = "text")

\* ---------------------------------------------------------------- C25
\* the for loop has gone past the directory n of the listing
C25_Processed(n) ==
    /\ IsDir(n)
    /\ \E k \in 1..Len(th.listing) : k < th.i /\ th.listing[k] = n

\* C25: at every point of the script, each subdirectory the loop has gone past was scanned
\* exactly once and notified exactly once, by the empty-result alert when its result file
\* is empty and by the upload of the file otherwise, never both; nothing else was scanned
\* or notified; and the completion message is sent exactly once, after the loop is over.
C25_OneScanOneNotification ==
    /\ \A n \in EntryNames :
          IF C25_Processed(n)
          THEN /\ th.scans[n] = 1
               /\ th.alerts[n] + th.uploads[n] = 1
               /\ th.alerts[n] = 1 <=> th.result[n] = "empty"
               /\ th.uploads[n] = 1 <=> th.result[n] = "nonempty"
          ELSE th.scans[n] = 0 /\ th.alerts[n] = 0 /\ th.uploads[n] = 0
    /\ th.completion = IF th.i > Len(th.listing) + 1 THEN 1 ELSE 0

\* the script has ended over a listing of two directories around a file: the first had an
\* empty result file and was alerted for, the second was uploaded, the completion message
\* was sent
C25_Witness ==
    /\ th.listing = <<"repoA", "README.md", "repoB">>
    /\ th.i = Len(th.listing) + 2
    /\ th.result["repoA"] = "empty" /\ th.alerts["repoA"] = 1 /\ th.uploads["repoA"] = 0
    /\ th.result["repoB"] = "nonempty" /\ th.alerts["repoB"] = 0 /\ th.uploads["repoB"] = 1
    /\ th.completion = 1

====
